---- MODULE Spec2Model ----
(***************************************************************************)
(* The reservation endpoint of final-product-reservation.                  *)
(*                                                                         *)
(* The repository holds three revisions of the same `action` handler:      *)
(*   "parallel"  app/routes/api.reserve/index.ts   (two metafieldsSet      *)
(*               mutations run with Promise.all, raw product id)           *)
(*   "batched"   unnamed/part_000 lines 8-174      (one metafieldsSet      *)
(*               mutation carrying both fields, raw product id)            *)
(*   "variant"   unnamed/part_000 lines 196-377    (variant -> product     *)
(*               resolution, then one mutation, then the upsert)           *)
(* One revision is deployed per process (variable revision); requests      *)
(* are handled concurrently and interleave at every await.                 *)
(***************************************************************************)
EXTENDS Integers, Sequences, FiniteSets, TLC

----------------------------------------------------------------------------
(* Bounds *)

NumReq == 2
MaxFaults == 1

----------------------------------------------------------------------------
(* JavaScript values *)

Undefined == "<undefined>"
Null == "<null>"

\* a const not yet initialised
NotYet == "<unassigned>"

\* !v for the values a JSON body field takes here
Falsy(v) == v \in {Undefined, Null, ""}

Requests == 1..NumReq

Revisions == {"parallel", "batched", "variant"}

\* JSON bodies a client may send: { productId, cartId, customerId, shop }
Body(p, c, u, s) == [productId |-> p, cartId |-> c, customerId |-> u, shop |-> s]

ProductIds == {Undefined, "1", "3"}

Bodies == { Body("1", "c1", "u1", "s"),
            Body("1", "c1", Undefined, "s"),
            Body("3", "c1", "u1", "s"),
            Body(Undefined, "c1", "u1", "s"),
            Body("1", "", "u1", "s"),
            Body("1", "c1", "u1", Undefined) }

\* The catalog platform: owning product of each variant gid (Undefined: none)
Catalog(variantGID) ==
    IF variantGID = "gid://shopify/ProductVariant/1"
    THEN "gid://shopify/Product/10"
    ELSE Undefined

\* userErrors the platform reports when it rejects a metafieldsSet input
PlatformErrors == << [field |-> "metafields", message |-> "invalid value"] >>

VARIABLES
    revision,        \* which revision of the handler is deployed
    pc,              \* position of each request's handler
    body,            \* parsed JSON body of each request
    admin,           \* admin context returned by authenticate.public.appProxy
    realProductGID,  \* variant revision: product gid resolved from the catalog
    inflight,        \* parallel revision: mutations sent and not yet answered
    responses,       \* responses to the metafieldsSet mutations of a request
    calls,           \* per request: the outbound calls it made, in order
    result,          \* the JSON result of each request
    meta,            \* remote metafields: owner gid -> key -> value
    db,              \* productReservation table
    nextId,          \* next generated record id
    clock,           \* time of the latest upsert
    faults           \* failures of the outside systems so far

vars == << revision, pc, body, admin, realProductGID, inflight, responses,
           calls, result, meta, db, nextId, clock, faults >>

NoBody == [productId |-> Undefined, cartId |-> Undefined,
           customerId |-> Undefined, shop |-> Undefined]

NoResult == [success |-> FALSE, status |-> 0]

Pending == [state |-> "pending", userErrors |-> << >>]

NoMeta == [is_reserved |-> Undefined, cart_id |-> Undefined]

\* `gid://shopify/Product/${productId}` and `gid://shopify/ProductVariant/${productId}`
ProductGID(productId) ==
    IF productId = "1" THEN "gid://shopify/Product/1"
    ELSE IF productId = "3" THEN "gid://shopify/Product/3"
    ELSE "gid://shopify/Product/undefined"

VariantGID(productId) ==
    IF productId = "1" THEN "gid://shopify/ProductVariant/1"
    ELSE IF productId = "3" THEN "gid://shopify/ProductVariant/3"
    ELSE "gid://shopify/ProductVariant/undefined"

Owners == ({ProductGID(p) : p \in ProductIds} \cup
           {Catalog(VariantGID(p)) : p \in ProductIds}) \ {Undefined}

\* The store already holds the reservation of an earlier request for cart "c2":
\* the row the deployed revision creates for { productId: "1", cartId: "c2",
\* customerId: "u1" } at time 0
SeedRow(rev) ==
    [id |-> 1,
     productId |-> IF rev = "variant" THEN Catalog(VariantGID("1")) ELSE "1",
     cartId |-> "c2", customerId |-> "u1", isReserved |-> TRUE,
     createdAt |-> 0, updatedAt |-> 0]

Init ==
    /\ revision \in Revisions
    /\ pc = [i \in Requests |-> "idle"]
    /\ body = [i \in Requests |-> NoBody]
    /\ admin = [i \in Requests |-> Undefined]
    /\ realProductGID = [i \in Requests |-> NotYet]
    /\ inflight = [i \in Requests |-> {}]
    /\ responses = [i \in Requests |-> << >>]
    /\ calls = [i \in Requests |-> << >>]
    /\ result = [i \in Requests |-> NoResult]
    /\ meta = [o \in Owners |-> NoMeta]
    /\ db = {SeedRow(revision)}
    /\ nextId = 2
    /\ clock = 0
    /\ faults = 0

----------------------------------------------------------------------------
(* Results *)

\* json({success:false, error:"Missing required fields..."}, {status:400})
ValidationFailure ==
    [success |-> FALSE, status |-> 400,
     error |-> "Missing required fields: productId, cartId, or shop"]

\* json({success:false, error:"Failed to update metafields", details}, {status:500})
MetafieldFailure(errors) ==
    [success |-> FALSE, status |-> 500,
     error |-> "Failed to update metafields", details |-> errors]

\* a catch block that reports success
CatchResultSuccess(message) ==
    [success |-> TRUE, status |-> 200,
     error |-> "Internal server error", details |-> message]

\* the catch block: json({success:false, error:"Internal server error",
\* details: error.message or "Unknown error"}, {status:500})
CatchResult(message) ==
    [success |-> FALSE, status |-> 500,
     error |-> "Internal server error", details |-> message]

\* json({success:true, reservation:{id, productId, cartId, customerId,
\* isReserved, createdAt}}) with the default status 200
SuccessResult(r) ==
    [success |-> TRUE, status |-> 200,
     reservation |-> [id |-> r.id, productId |-> r.productId,
                      cartId |-> r.cartId, customerId |-> r.customerId,
                      isReserved |-> r.isReserved, createdAt |-> r.createdAt]]

ResolutionMessage == "Could not resolve product ID from variant ID"
TypeErrorMessage == "Cannot read properties of undefined (reading 'graphql')"
TransportMessage == "fetch failed"
DatabaseMessage == "database error"
UnknownMessage == "Unknown error"

----------------------------------------------------------------------------
(* Validation *)

\* the check without its shop operand
MissingRequiredNoShop(b) == Falsy(b.productId) \/ Falsy(b.cartId)

\* if (!productId || !cartId || !shop)
MissingRequired(b) == Falsy(b.productId) \/ Falsy(b.cartId) \/ Falsy(b.shop)

Finish(i, res) ==
    /\ pc' = [pc EXCEPT ![i] = "done"]
    /\ result' = [result EXCEPT ![i] = res]

\* const body = await request.json(); validation of the required fields
Receive(i) ==
    /\ pc[i] = "idle"
    /\ \E b \in Bodies :
        /\ body' = [body EXCEPT ![i] = b]
        /\ IF MissingRequired(b)
           THEN Finish(i, ValidationFailure)
           ELSE /\ pc' = [pc EXCEPT ![i] = "auth"]
                /\ UNCHANGED result
    /\ UNCHANGED << revision, admin, realProductGID, inflight, responses,
                    calls, meta, db, nextId, clock, faults >>

\* The outside systems (authentication, platform, database) fail at most
\* MaxFaults times in a run
Fault(failed) ==
    /\ failed => faults < MaxFaults
    /\ faults' = IF failed THEN faults + 1 ELSE faults

----------------------------------------------------------------------------
(* Outbound calls *)

QueryCall(id) ==
    [kind |-> "query", id |-> id, cartId |-> Undefined, metafields |-> << >>]

MutationCall(mfs) ==
    [kind |-> "mutation", id |-> mfs[1].ownerId, cartId |-> Undefined,
     metafields |-> mfs]

UpsertCall(pid, cid) ==
    [kind |-> "upsert", id |-> pid, cartId |-> cid, metafields |-> << >>]

Fulfilled(errors) == [state |-> "fulfilled", userErrors |-> errors]
Rejected == [state |-> "rejected", userErrors |-> << >>]

\* The platform's answers to one metafieldsSet call
MutationOutcomes == {Fulfilled(<< >>), Fulfilled(PlatformErrors), Rejected}

MetaKeys == {"is_reserved", "cart_id"}

\* metafieldsSet on the platform: all inputs of one call are stored together,
\* a later input for the same owner and key replacing an earlier one
ApplyMetafields(m, mfs) ==
    [o \in Owners |->
        [k \in MetaKeys |->
            LET hits == {n \in DOMAIN mfs :
                            mfs[n].ownerId = o /\ mfs[n].key = k}
            IN IF hits = {} THEN m[o][k]
               ELSE mfs[CHOOSE n \in hits : \A h \in hits : h <= n].value]]

\* what the platform holds after answering a call with the given response
PlatformState(m, mfs, resp) ==
    IF resp.state = "fulfilled" /\ resp.userErrors = << >>
    THEN ApplyMetafields(m, mfs)
    ELSE m

----------------------------------------------------------------------------
(* variant revision: unnamed/part_000 lines 238-265 *)

\* the resolution check left out
UnresolvedNever(gid) == FALSE

\* if (!realProductGID) throw new Error("Could not resolve product ID ...")
Unresolved(gid) == Falsy(gid)

ResolveVariant(i) ==
    /\ pc[i] = "resolve"
    /\ revision = "variant"
    /\ LET variantGID == VariantGID(body[i].productId)
       IN IF admin[i] = Undefined
          \* admin?.graphql(...) is undefined, so is realProductGID
          THEN /\ realProductGID' = [realProductGID EXCEPT ![i] = Undefined]
               /\ Finish(i, CatchResult(ResolutionMessage))
               /\ UNCHANGED << calls, faults >>
          ELSE /\ calls' = [calls EXCEPT ![i] = Append(@, QueryCall(variantGID))]
               /\ \E answered \in BOOLEAN :
                    /\ Fault(~answered)
                    /\ IF ~answered
                       THEN /\ Finish(i, CatchResult(TransportMessage))
                            /\ UNCHANGED realProductGID
                       ELSE LET gid == Catalog(variantGID)
                            IN /\ realProductGID' =
                                      [realProductGID EXCEPT ![i] = gid]
                               /\ IF Unresolved(gid)
                                  THEN Finish(i, CatchResult(ResolutionMessage))
                                  ELSE /\ pc' = [pc EXCEPT ![i] = "mutation"]
                                       /\ UNCHANGED result
    /\ UNCHANGED << revision, body, admin, inflight, responses,
                    meta, db, nextId, clock >>

----------------------------------------------------------------------------
(* batched revision: unnamed/part_000 lines 50-61 *)

TestProductGID == "gid://shopify/Product/45993154085018"

ProductTest(i) ==
    /\ pc[i] = "productTest"
    /\ revision = "batched"
    /\ IF admin[i] = Undefined
       \* admin.graphql on undefined throws a TypeError
       THEN /\ Finish(i, CatchResult(TypeErrorMessage))
            /\ UNCHANGED << calls, faults >>
       ELSE /\ calls' = [calls EXCEPT ![i] = Append(@, QueryCall(TestProductGID))]
            /\ \E answered \in BOOLEAN :
                 /\ Fault(~answered)
                 /\ IF ~answered
                    THEN Finish(i, CatchResult(TransportMessage))
                    ELSE /\ pc' = [pc EXCEPT ![i] = "mutation"]
                         /\ UNCHANGED result
    /\ UNCHANGED << revision, body, admin, realProductGID, inflight,
                    responses, meta, db, nextId, clock >>

----------------------------------------------------------------------------
(* The metadata write *)

Metafield(owner, key, value, type) ==
    [ownerId |-> owner, namespace |-> "reservation", key |-> key,
     value |-> value, type |-> type]

\* The product id each revision writes against: the resolved gid in the
\* variant revision, the client's productId in the other two
OwnerId(i) ==
    IF revision = "variant"
    THEN realProductGID[i]
    ELSE ProductGID(body[i].productId)

\* The metafields array of the batched and variant revisions
Metafields(i) ==
    << Metafield(OwnerId(i), "is_reserved", "true", "boolean"),
       Metafield(OwnerId(i), "cart_id", body[i].cartId,
                 "single_line_text_field") >>

\* One metafieldsSet mutation with both fields, awaited at once
SendMetafieldsSet(i) ==
    /\ pc[i] = "mutation"
    /\ revision \in {"batched", "variant"}
    /\ calls' = [calls EXCEPT ![i] = Append(@, MutationCall(Metafields(i)))]
    /\ \E resp \in MutationOutcomes :
        /\ Fault(resp # Fulfilled(<< >>))
        /\ meta' = PlatformState(meta, Metafields(i), resp)
        /\ responses' = [responses EXCEPT ![i] = << resp >>]
        /\ IF resp.state = "rejected"
           THEN Finish(i, CatchResult(TransportMessage))
           ELSE IF Len(resp.userErrors) > 0
           THEN Finish(i, MetafieldFailure(resp.userErrors))
           ELSE /\ pc' = [pc EXCEPT ![i] = "upsert"]
                /\ UNCHANGED result
    /\ UNCHANGED << revision, body, admin, realProductGID, inflight,
                    db, nextId, clock >>

\* parallel revision: metafieldsToUpdate.map(metafield => admin.graphql(...)),
\* one mutation per field
ParallelMutations(i) ==
    << << Metafield(OwnerId(i), "is_reserved", "true", "boolean") >>,
       << Metafield(OwnerId(i), "cart_id", body[i].cartId,
                    "single_line_text_field") >> >>

\* The handler sends both mutations at once, with the admin context adm
IssueMutations(i, adm) ==
    IF adm = Undefined
    \* admin.graphql on undefined throws a TypeError before anything is sent
    THEN /\ Finish(i, CatchResult(TypeErrorMessage))
         /\ UNCHANGED << calls, inflight, responses >>
    ELSE /\ calls' = [calls EXCEPT ![i] =
                @ \o << MutationCall(ParallelMutations(i)[1]),
                        MutationCall(ParallelMutations(i)[2]) >>]
         /\ inflight' = [inflight EXCEPT ![i] = {1, 2}]
         /\ responses' = [responses EXCEPT ![i] = << Pending, Pending >>]
         /\ pc' = [pc EXCEPT ![i] = "awaitAll"]
         /\ UNCHANGED result

\* result.body?.data?.metafieldsSet?.userErrors : admin.graphql resolves to a
\* fetch Response (the later revisions read it with result.json()); its body
\* is the byte stream, which has no `data` property
BodyUserErrors(resp) == Undefined

\* undefined?.length > 0 is false
LengthGreaterThanZero(v) == IF v = Undefined THEN FALSE ELSE Len(v) > 0

\* metafieldResults.some(result => ...userErrors?.length > 0)
HasErrors(rs) ==
    \E n \in DOMAIN rs : LengthGreaterThanZero(BodyUserErrors(rs[n]))

RECURSIVE FlatErrors(_)
\* metafieldResults.flatMap(result => ...userErrors || [])
FlatErrors(rs) ==
    IF rs = << >> THEN << >>
    ELSE (IF BodyUserErrors(Head(rs)) = Undefined THEN << >>
          ELSE BodyUserErrors(Head(rs))) \o FlatErrors(Tail(rs))

\* Promise.all settles: at the first rejection, or when all are fulfilled
Settled(rs) ==
    \/ \E k \in DOMAIN rs : rs[k].state = "rejected"
    \/ \A k \in DOMAIN rs : rs[k].state = "fulfilled"

\* await Promise.all(metafieldMutations) settled with rs, and the error check
AwaitAll(i, rs) ==
    IF \E k \in DOMAIN rs : rs[k].state = "rejected"
    THEN Finish(i, CatchResult(TransportMessage))
    ELSE IF HasErrors(rs)
    THEN Finish(i, MetafieldFailure(FlatErrors(rs)))
    ELSE /\ pc' = [pc EXCEPT ![i] = "upsert"]
         /\ UNCHANGED result

\* The platform answers one of the two mutations of a request; the handler
\* goes on when that settles its Promise.all
PlatformRespond(i, k) ==
    /\ k \in inflight[i]
    /\ \E resp \in MutationOutcomes :
        /\ Fault(resp # Fulfilled(<< >>))
        /\ meta' = PlatformState(meta, ParallelMutations(i)[k], resp)
        /\ responses' = [responses EXCEPT ![i][k] = resp]
    /\ inflight' = [inflight EXCEPT ![i] = @ \ {k}]
    /\ IF pc[i] = "awaitAll" /\ Settled(responses'[i])
       THEN AwaitAll(i, responses'[i])
       ELSE UNCHANGED << pc, result >>
    /\ UNCHANGED << revision, body, admin, realProductGID, calls,
                    db, nextId, clock >>

\* const { admin } = await authenticate.public.appProxy(request); the handler
\* then runs to its next await
AfterAuth == [batched |-> "productTest", variant |-> "resolve"]

Authenticate(i) ==
    /\ pc[i] = "auth"
    /\ \E outcome \in {"admin", Undefined, "throws"} :
        /\ Fault(outcome # "admin")
        /\ IF outcome = "throws"
           THEN /\ Finish(i, CatchResult(UnknownMessage))
                /\ UNCHANGED << admin, calls, inflight, responses >>
           ELSE /\ admin' = [admin EXCEPT ![i] = outcome]
                /\ IF revision = "parallel"
                   THEN IssueMutations(i, outcome)
                   ELSE /\ pc' = [pc EXCEPT ![i] = AfterAuth[revision]]
                        /\ UNCHANGED << result, calls, inflight, responses >>
    /\ UNCHANGED << revision, body, realProductGID, meta, db, nextId, clock >>

----------------------------------------------------------------------------
(* Local persistence *)

\* The productId of the upsert: realProductGID.toString() in the variant
\* revision, productId.toString() in the other two
OwnerIdForRecord(i) ==
    IF revision = "variant" THEN realProductGID[i] ELSE body[i].productId

\* customerId?.toString() without the `|| null`
CustomerOfRaw(c) == c

\* customerId?.toString() || null
CustomerOf(c) == IF Falsy(c) THEN Null ELSE c

Existing(d, pid, cid) == {r \in d : r.productId = pid /\ r.cartId = cid}

\* an insert in place of the upsert
UpsertRowsInsert(d, pid, cid, cust, id, now) ==
    d \cup {[id |-> id, productId |-> pid, cartId |-> cid,
             customerId |-> cust, isReserved |-> TRUE,
             createdAt |-> now, updatedAt |-> now]}

\* an upsert whose update branch leaves customerId out
UpsertRowsKeepCustomer(d, pid, cid, cust, id, now) ==
    IF {r \in d : r.productId = pid /\ r.cartId = cid} # {}
    THEN {IF r.productId = pid /\ r.cartId = cid
          THEN [r EXCEPT !.isReserved = TRUE, !.updatedAt = now]
          ELSE r : r \in d}
    ELSE d \cup {[id |-> id, productId |-> pid, cartId |-> cid,
                  customerId |-> cust, isReserved |-> TRUE,
                  createdAt |-> now, updatedAt |-> now]}

\* prisma.productReservation.upsert({where: {productId_cartId}, update, create})
UpsertRows(d, pid, cid, cust, id, now) ==
    IF Existing(d, pid, cid) # {}
    THEN {IF r \in Existing(d, pid, cid)
          THEN [r EXCEPT !.isReserved = TRUE, !.customerId = cust,
                         !.updatedAt = now]
          ELSE r : r \in d}
    ELSE d \cup {[id |-> id, productId |-> pid, cartId |-> cid,
                  customerId |-> cust, isReserved |-> TRUE,
                  createdAt |-> now, updatedAt |-> now]}

\* new Date() is read when the upsert is made: the time of the last upsert
\* or a later one
Upsert(i) ==
    /\ pc[i] = "upsert"
    /\ LET pid == OwnerIdForRecord(i)
           cid == body[i].cartId
       IN /\ calls' = [calls EXCEPT ![i] = Append(@, UpsertCall(pid, cid))]
          /\ \E stored \in BOOLEAN :
               /\ Fault(~stored)
               /\ IF ~stored
                  THEN /\ Finish(i, CatchResult(DatabaseMessage))
                       /\ UNCHANGED << db, nextId, clock >>
                  ELSE /\ \E now \in {clock, clock + 1} : clock' = now
                       /\ db' = UpsertRows(db, pid, cid,
                                           CustomerOf(body[i].customerId),
                                           nextId, clock')
                       /\ nextId' = IF Existing(db, pid, cid) = {}
                                    THEN nextId + 1 ELSE nextId
                       /\ Finish(i, SuccessResult(
                             CHOOSE r \in Existing(db', pid, cid) : TRUE))
    /\ UNCHANGED << revision, body, admin, realProductGID, inflight,
                    responses, meta >>

Next ==
    \/ \E i \in Requests : Receive(i)
    \/ \E i \in Requests : Authenticate(i)
    \/ \E i \in Requests : ResolveVariant(i)
    \/ \E i \in Requests : ProductTest(i)
    \/ \E i \in Requests : SendMetafieldsSet(i)
    \/ \E i \in Requests : \E k \in {1, 2} : PlatformRespond(i, k)
    \/ \E i \in Requests : Upsert(i)

Spec == Init /\ [][Next]_vars

----------------------------------------------------------------------------
(* Properties *)

Done(i) == pc[i] = "done"

CallsOfKind(i, kind) == {n \in DOMAIN calls[i] : calls[i][n].kind = kind}

\* a body field that is missing or empty
Absent(v) == v = Undefined \/ v = ""

\* the gids the catalog resolves some variant to
ResolvedIdentities == {Catalog(VariantGID(p)) : p \in ProductIds} \ {Undefined}

\* the value the request's customerId is stored as
StoredCustomer(i) ==
    IF body[i].customerId = Undefined THEN Null ELSE body[i].customerId

\* C1: a request whose productId, cartId or shop is missing or empty ends
\* with success=false and status 400, and makes no catalog query, no
\* metadata write and no upsert.
C1_ValidationFailure ==
    \A i \in Requests :
        (pc[i] # "idle" /\ (Absent(body[i].productId) \/ Absent(body[i].cartId)
                            \/ Absent(body[i].shop)))
        => /\ Done(i)
           /\ result[i].success = FALSE
           /\ result[i].status = 400
           /\ calls[i] = << >>

C1_Witness ==
    \E i \in Requests :
        /\ Done(i)
        /\ body[i].shop = Undefined
        /\ body[i].productId = "1"
        /\ result[i].status = 400

\* C2: a valid request whose metadata mutation returns userErrors ends with
\* the metadata-write failure carrying those errors and never calls the
\* local store.
C2_FieldErrorsStopPersistence ==
    \A i \in Requests :
        (/\ Done(i)
         /\ responses[i] # << >>
         /\ \A k \in DOMAIN responses[i] : responses[i][k].state = "fulfilled"
         /\ \E k \in DOMAIN responses[i] : responses[i][k].userErrors # << >>)
        => /\ result[i].success = FALSE
           /\ result[i].error = "Failed to update metafields"
           /\ result[i].details = PlatformErrors
           /\ CallsOfKind(i, "upsert") = {}

\* C3: a request whose variant has no owning product in the catalog ends
\* with the resolution failure, having made no metadata write and no upsert.
C3_ResolutionFailure ==
    \A i \in Requests :
        (realProductGID[i] = Undefined /\ calls[i] # << >>)
        => /\ Done(i)
           /\ result[i].success = FALSE
           /\ result[i].status = 500
           /\ result[i].details = "Could not resolve product ID from variant ID"
           /\ CallsOfKind(i, "mutation") = {}
           /\ CallsOfKind(i, "upsert") = {}

C3_Witness ==
    \E i \in Requests :
        /\ Done(i)
        /\ body[i].productId = "3"
        /\ realProductGID[i] = Undefined
        /\ CallsOfKind(i, "query") # {}
        /\ result[i].success = FALSE

\* C4: the owner id of every metadata write and the productId of every
\* upsert is the identity the catalog resolved for that request, never the
\* client's id.
C4_WritesUseResolvedIdentity ==
    \A i \in Requests : \A n \in DOMAIN calls[i] :
        LET c == calls[i][n]
        IN /\ c.kind = "mutation" =>
                /\ realProductGID[i] \in ResolvedIdentities
                /\ \A m \in DOMAIN c.metafields :
                      c.metafields[m].ownerId = realProductGID[i]
           /\ c.kind = "upsert" =>
                /\ realProductGID[i] \in ResolvedIdentities
                /\ c.id = realProductGID[i]

\* C5: within a request a metadata write is issued only after resolution
\* succeeded, an upsert only after the metadata write completed without
\* field errors, and a failed request made no call after the failing step.
C5_StepOrder ==
    \A i \in Requests : \A n \in DOMAIN calls[i] :
        LET c == calls[i][n]
        IN /\ c.kind = "mutation" =>
                /\ \E m \in 1..(n - 1) : calls[i][m].kind = "query"
                /\ realProductGID[i] \in ResolvedIdentities
           /\ c.kind = "upsert" =>
                /\ \E m \in 1..(n - 1) : calls[i][m].kind = "mutation"
                /\ responses[i] # << >>
                /\ \A k \in DOMAIN responses[i] :
                      responses[i][k] = Fulfilled(<< >>)
                /\ n = Len(calls[i])

\* the step in which request i's upsert is served by the store
UpsertServed(i) ==
    /\ pc[i] = "upsert"
    /\ pc'[i] = "done"
    /\ faults' = faults

\* the where clause of the upsert request i has just made
UpsertKey(i) == calls'[i][Len(calls'[i])]

\* C6: the store holds at most one record per (productId, cartId), also
\* when requests for the same pair interleave; all requests the store served
\* succeed and report the one record of their pair.
C6_OneRecordPerPair ==
    /\ [](/\ \A r1, r2 \in db :
                (r1.productId = r2.productId /\ r1.cartId = r2.cartId)
                => r1 = r2
          /\ \A i, j \in Requests :
                (/\ Done(i) /\ Done(j)
                 /\ result[i].success /\ result[j].success
                 /\ result[i].reservation.productId =
                       result[j].reservation.productId
                 /\ result[i].reservation.cartId = result[j].reservation.cartId)
                => result[i].reservation.id = result[j].reservation.id)
    /\ [][\A i \in Requests :
            LET hit == {r \in db : /\ r.productId = UpsertKey(i).id
                                   /\ r.cartId = UpsertKey(i).cartId}
            IN UpsertServed(i)
               => /\ result'[i].success
                  /\ hit # {} => /\ Cardinality(db') = Cardinality(db)
                                 /\ \E r \in hit :
                                       result'[i].reservation.id = r.id]_vars

C6_Witness ==
    \E i, j \in Requests :
        /\ i # j
        /\ Done(i) /\ Done(j) /\ result[i].success /\ result[j].success
        /\ result[i].reservation.productId = result[j].reservation.productId
        /\ result[i].reservation.cartId = result[j].reservation.cartId
        /\ Cardinality({r \in db : /\ r.productId = result[i].reservation.productId
                                   /\ r.cartId = result[i].reservation.cartId}) = 1

\* C7: an upsert that hits an existing record leaves its id and createdAt,
\* sets isReserved, refreshes updatedAt and replaces customerId by the
\* request's (null when it has none); no other record changes.
C7_UpdateInPlace ==
    [][\A i \in Requests :
        LET hit == {r \in db : /\ r.productId = UpsertKey(i).id
                               /\ r.cartId = UpsertKey(i).cartId}
        IN (UpsertServed(i) /\ hit # {})
           => \E old \in hit :
                db' = (db \ {old}) \cup
                      {[id |-> old.id, productId |-> old.productId,
                        cartId |-> old.cartId, createdAt |-> old.createdAt,
                        isReserved |-> TRUE, customerId |-> StoredCustomer(i),
                        updatedAt |-> clock']}]_vars

C7_Witness ==
    \E r \in db :
        /\ r.updatedAt > r.createdAt
        /\ r.customerId = Null
        /\ Cardinality(db) = 2
        /\ \E i, j \in Requests :
              /\ i # j /\ Done(i) /\ Done(j)
              /\ result[i].success /\ result[j].success
              /\ result[i].reservation.id = r.id
              /\ result[j].reservation.id = r.id
              /\ result[i].reservation.customerId # result[j].reservation.customerId

\* C8: when a request passed resolution and the metadata write and no record
\* exists for (resolved product id, cartId), the upsert creates exactly one
\* record with that productId and cartId, isReserved=true and the request's
\* customerId, and the success result returns it.
C8_CreateWhenAbsent ==
    [][\A i \in Requests :
        (/\ UpsertServed(i)
         /\ realProductGID[i] \in ResolvedIdentities
         /\ ~ \E r \in db : /\ r.productId = realProductGID[i]
                            /\ r.cartId = body[i].cartId)
        => \E r \in db' :
              /\ r \notin db
              /\ db' = db \cup {r}
              /\ \A o \in db : o.id # r.id
              /\ r.productId = realProductGID[i]
              /\ r.cartId = body[i].cartId
              /\ r.isReserved = TRUE
              /\ r.customerId = StoredCustomer(i)
              /\ r.createdAt = clock'
              /\ result'[i].success = TRUE
              /\ result'[i].reservation =
                    [id |-> r.id, productId |-> r.productId,
                     cartId |-> r.cartId, customerId |-> r.customerId,
                     isReserved |-> r.isReserved, createdAt |-> r.createdAt]]_vars

C8_Witness ==
    \E i \in Requests :
        /\ Done(i)
        /\ result[i].success
        /\ realProductGID[i] \in ResolvedIdentities
        /\ body[i].customerId = "u1"
        /\ \E r \in db : /\ r.id = result[i].reservation.id
                         /\ r.productId = realProductGID[i]
                         /\ r.cartId = "c1"
                         /\ r.customerId = "u1"
                         /\ r.createdAt = r.updatedAt

\* C9: a request that reaches the metadata write issues exactly one mutation,
\* carrying is_reserved=true and cart_id=<cartId> for one owner, and the
\* platform never holds one of the two fields of an owner without the other.
C9_SingleBatchedWrite ==
    /\ \A i \in Requests :
          /\ Cardinality(CallsOfKind(i, "mutation")) <= 1
          /\ \A n \in CallsOfKind(i, "mutation") :
                LET mfs == calls[i][n].metafields
                IN /\ Len(mfs) = 2
                   /\ mfs[1].ownerId = mfs[2].ownerId
                   /\ \E m \in 1..2 : mfs[m].key = "is_reserved" /\ mfs[m].value = "true"
                   /\ \E m \in 1..2 : mfs[m].key = "cart_id" /\ mfs[m].value = body[i].cartId
    /\ \A o \in Owners :
          (meta[o].is_reserved = Undefined) <=> (meta[o].cart_id = Undefined)

\* C10: when the metadata write succeeded and the upsert then fails, the
\* request ends with the unexpected-failure result, nothing is retried or
\* compensated, the store is unchanged and the platform keeps
\* is_reserved=true for the product.
C10_NoRollback ==
    [][/\ \A i \in Requests :
            (/\ pc[i] = "upsert" /\ pc'[i] = "done" /\ faults' = faults + 1
             /\ \A k \in DOMAIN responses[i] : responses[i][k] = Fulfilled(<< >>))
            => /\ result'[i].success = FALSE
               /\ result'[i].status = 500
               /\ result'[i].error = "Internal server error"
               /\ db' = db
               /\ meta' = meta
               /\ Len(calls'[i]) = Len(calls[i]) + 1
               /\ \A n \in CallsOfKind(i, "mutation") :
                     meta'[calls[i][n].id].is_reserved = "true"
       /\ \A i \in Requests : Done(i) => calls'[i] = calls[i]
       /\ \A o \in Owners :
            meta[o].is_reserved = "true" => meta'[o].is_reserved = "true"]_vars

C10_Witness ==
    \E i \in Requests :
        /\ Done(i)
        /\ CallsOfKind(i, "upsert") # {}
        /\ result[i].success = FALSE
        /\ \A n \in CallsOfKind(i, "mutation") :
              meta[calls[i][n].id].is_reserved = "true"
        /\ ~ \E r \in db : /\ r.productId = calls[i][Len(calls[i])].id
                           /\ r.cartId = calls[i][Len(calls[i])].cartId

====
